---------------------------- MODULE Spec2Model ----------------------------
(* Model of score.py (class MLModel) as written by the notebook             *)
(* create_resnet50_icpu_inference_engine.ipynb: the constructor, Preprocess, *)
(* Postprocess and Score, called by several threads on one MLModel object.   *)
(*                                                                           *)
(* Numbers: a float is the record [num, den] (the value num/den, den > 0).   *)
(* Text: a label line is a sequence of pieces, each piece being one          *)
(* whitespace character or a maximal run of non-blank characters.            *)
(* Python indices are kept 0-based; TLA+ sequences are 1-based.              *)
EXTENDS Integers, Sequences, FiniteSets, TLC

NumCallers == 2
BurstCallers == 8
OutDim == 5
ImageSize == 224
TopK == 3
Percent == 100
MaxSample == 255

VARIABLES
  callers,        \* the threads that call Score on the one MLModel object
  labelFile,      \* synset.txt: [exists, lines]
  modelFile,      \* resnet50-v2-7.onnx can be loaded by onnxruntime
  constructed,    \* MLModel() has returned
  hasLabelList,   \* attribute self._labelList exists
  labelList,      \* self._labelList
  hasSession,     \* attribute self._onnxSession exists
  sessionInput,   \* the input the execution engine is currently bound to
  initLogged,     \* the constructor's except clause has logged an exception
  lock,           \* self._lock: Free or the caller that holds it
  pc,             \* per caller: position inside Score
  cvImage,        \* per caller: argument of Score
  imageBlob,      \* per caller: local imageBlob of Score
  probabilities,  \* per caller: local probabilities of Score
  sorted_indices, \* per caller: sorted_indices[:3] of Postprocess, the entries it reads
  exc,            \* per caller: exception propagating out of the with block
  logged,         \* per caller: stages whose exception PrintGetExceptionDetails logged
  runInvoked,     \* per caller: self._onnxSession.run was called in this Score
  result          \* per caller: what Score returned

vars == <<callers, labelFile, modelFile, constructed, hasLabelList, labelList,
          hasSession, sessionInput, initLogged, lock, pc, cvImage, imageBlob,
          probabilities, sorted_indices, exc, logged, runInvoked, result>>

objVars == <<labelFile, modelFile, constructed, hasLabelList, labelList,
             hasSession, initLogged>>

Free == 0

-----------------------------------------------------------------------------
(* Values *)

NoImage == [h |-> 0, w |-> 0, c |-> 0, px |-> <<>>]
NoneBlob == [isNone |-> TRUE, shape |-> <<>>, px |-> <<>>]
NoneResult == [kind |-> "None", items |-> <<>>]

\* Images a caller may pass: shape (h, w, c) and the samples of one pixel.
ImgRed   == [h |-> ImageSize, w |-> ImageSize, c |-> 3, px |-> <<0, 0, MaxSample>>]
ImgBlue  == [h |-> ImageSize, w |-> ImageSize, c |-> 3, px |-> <<MaxSample, 0, 0>>]
ImgSmall == [h |-> 100, w |-> 100, c |-> 3, px |-> <<0, 0, MaxSample>>]
ImgGray  == [h |-> ImageSize, w |-> ImageSize, c |-> 1, px |-> <<MaxSample>>]
Images == {ImgRed, ImgBlue, ImgSmall, ImgGray}

ValidShape(img) == img.h = ImageSize /\ img.w = ImageSize /\ img.c = 3

\* Label file lines.
Ids == <<"0", "1", "2", "3", "4", "5", "6", "7", "8", "9">>
Names == <<"cat", "dog", "bird", "fish", "mouse", "fox", "llama", "gazelle", "wallaby", "kangaroo">>
PlainLine(i) == <<Ids[i + 1], " ", Names[i + 1], "\n">>
SynsetLine(i) == <<Ids[i + 1], " ", "n02119789", " ", Names[i + 1], "\n">>
TabLine(i) == <<Ids[i + 1], "\t", Names[i + 1], "\n">>
BareLine(i) == <<Names[i + 1], " ", "\n">>

FullFile == [exists |-> TRUE, lines |-> [i \in 1..OutDim |-> PlainLine(i - 1)]]
SynsetFile == [exists |-> TRUE, lines |-> [i \in 1..OutDim |-> SynsetLine(i - 1)]]
ShortFile == [exists |-> TRUE, lines |-> [i \in 1..(OutDim - 1) |-> PlainLine(i - 1)]]
TabFile == [exists |-> TRUE,
            lines |-> [i \in 1..OutDim |-> IF i = OutDim THEN TabLine(i - 1) ELSE PlainLine(i - 1)]]
BareFile == [exists |-> TRUE,
             lines |-> [i \in 1..OutDim |-> IF i = OutDim THEN BareLine(i - 1) ELSE PlainLine(i - 1)]]
MissingFile == [exists |-> FALSE, lines |-> <<>>]

-----------------------------------------------------------------------------
(* Python and numpy helpers *)

IsSpace(ch) == ch \in {" ", "\t", "\n", "\r"}

RECURSIVE rstrip(_)
rstrip(l) ==
  IF l = <<>> THEN l
  ELSE IF IsSpace(l[Len(l)]) THEN rstrip(SubSeq(l, 1, Len(l) - 1))
  ELSE l

\* [l.rstrip() for l in f]
ReadLabels(lines) == [i \in 1..Len(lines) |-> rstrip(lines[i])]

\* obj.split(' '), without the maxsplit argument, keeps only the second word.
split_all(obj) ==
  LET sp == {i \in 1..Len(obj) : obj[i] = " "} IN
  IF sp = {} THEN <<obj>>
  ELSE LET p == CHOOSE i \in sp : \A j \in sp : i <= j
           rest == SubSeq(obj, p + 1, Len(obj))
           sp2 == {i \in 1..Len(rest) : rest[i] = " "}
       IN IF sp2 = {} THEN <<SubSeq(obj, 1, p - 1), rest>>
          ELSE LET q == CHOOSE i \in sp2 : \A j \in sp2 : i <= j
               IN <<SubSeq(obj, 1, p - 1), SubSeq(rest, 1, q - 1)>>

\* obj.split(' ', 1): at most one split, at the first space character.
split_1(obj) ==
  LET sp == {i \in 1..Len(obj) : obj[i] = " "} IN
  IF sp = {} THEN <<obj>>
  ELSE LET p == CHOOSE i \in sp : \A j \in sp : i <= j
       IN <<SubSeq(obj, 1, p - 1), SubSeq(obj, p + 1, Len(obj))>>

\* list[idx] of Python: negative indices count from the end.
InRange(list, idx) == idx >= 0 - Len(list) /\ idx < Len(list)
PyIndex(list, idx) == IF idx >= 0 THEN list[idx + 1] ELSE list[Len(list) + idx + 1]

Reverse(s) == [i \in 1..Len(s) |-> s[Len(s) + 1 - i]]

\* np.squeeze of an array of shape (1, 1, n)
Squeeze(a) == a[1][1]

\* Floats
Float(n, d) == [num |-> n, den |-> d]
Leq(a, b) == a.num * b.den <= b.num * a.den
Eq(a, b) == a.num * b.den = b.num * a.den
Div(a, k) == [num |-> a.num, den |-> a.den * k]

\* The indices whose value can stand at place i (1-based) of v sorted
\* ascending: fewer than i values are below it, at least i are not above it.
PlaceCandidates(v, i) ==
  {k \in 1..Len(v) :
     /\ Cardinality({j \in 1..Len(v) : ~Leq(v[k], v[j])}) < i
     /\ Cardinality({j \in 1..Len(v) : Leq(v[j], v[k])}) >= i}

\* np.argsort(v) with the default kind (not stable): any order of the
\* (0-based) indices that lists the values ascending; equal values may come
\* in either order. AscendingOrders(v, n) are the first n places.
RECURSIVE AscendingOrders(_, _)
AscendingOrders(v, n) ==
  IF n = 0 THEN {<<>>}
  ELSE UNION {{Append(o, k - 1) :
                 k \in {c \in PlaceCandidates(v, n) : \A i \in 1..Len(o) : o[i] # c - 1}} :
              o \in AscendingOrders(v, n - 1)}
ArgSorts(v) == AscendingOrders(v, Len(v))

\* np.sort(v): the values ascending.
np_sort(v) == [i \in 1..Len(v) |-> v[CHOOSE k \in PlaceCandidates(v, i) : TRUE]]

-----------------------------------------------------------------------------
(* The execution engine behind self._onnxSession *)

\* Raw scores of the two valid images (one row of OutDim scores each).
ExampleVec ==
  [i \in 1..OutDim |->
     CASE i = 1 -> Float(1, 10)
       [] i = 2 -> Float(92, 1)
       [] i = 3 -> Float(1, 20)
       [] i = 4 -> Float(4, 1)
       [] i = 5 -> Float(3, 1)
       [] OTHER -> Float(1, 100 * i)]
EdgeVec ==
  [i \in 1..OutDim |->
     CASE i = 1 -> Float(150, 1)
       [] i = 2 -> Float(4, 1)
       [] i = 3 -> Float(3, 1)
       [] OTHER -> Float(1, 100 * i)]

\* The input the loaded model accepts: data of shape (N, 3, 224, 224).
EngineAccepts(blob) ==
  /\ ~blob.isNone
  /\ blob.shape = <<1, 3, ImageSize, ImageSize>>

\* The outputs of the model for the bound input: a list of one array of
\* shape (1, OutDim), a function of the input alone.
Model(blob) ==
  IF Eq(blob.px[1], Float(1, 1)) THEN << <<ExampleVec>> >> ELSE << <<EdgeVec>> >>

-----------------------------------------------------------------------------
(* MLModel.Preprocess *)

\* cv2.cvtColor(cvImage, cv2.COLOR_BGR2RGB) accepts 3 or 4 channels
cvtColorRaises(img) == img.c \notin {3, 4}
cvtColor(img) == [h |-> img.h, w |-> img.w, c |-> 3, px |-> <<img.px[3], img.px[2], img.px[1]>>]

\* np.transpose(a, axes) on the shape
Transpose(shape, axes) == [i \in 1..Len(axes) |-> shape[axes[i] + 1]]

Preprocess(img) ==
  IF cvtColorRaises(img) THEN [raised |-> TRUE, blob |-> NoneBlob]
  ELSE LET rgb == cvtColor(img)
           floats == [i \in 1..3 |-> Float(rgb.px[i], 1)]
           scaled == [i \in 1..3 |-> Div(floats[i], MaxSample)]
           chw == Transpose(<<rgb.h, rgb.w, rgb.c>>, <<2, 0, 1>>)
       IN [raised |-> FALSE,
           blob |-> [isNone |-> FALSE, shape |-> <<1>> \o chw, px |-> scaled]]

-----------------------------------------------------------------------------
(* MLModel.Postprocess *)

Tag(obj_name, confidence) ==
  [type |-> "classification",
   classification |-> [tag |-> [value |-> obj_name, confidence |-> confidence]]]

\* a[::-1]
descending_no_reverse(a) == a
descending(a) == Reverse(a)

\* The for loop and the return, given the two sorted arrays.
PostprocessLoop(labels, sorted_prob, sorted_indices_) ==
  LET fails(i) ==
        \/ i >= Len(sorted_prob)
        \/ ~InRange(labels, sorted_indices_[i + 1])
        \/ Len(split_1(PyIndex(labels, sorted_indices_[i + 1]))) < 2
      dobj(i) ==
        Tag(split_1(PyIndex(labels, sorted_indices_[i + 1]))[2], Div(sorted_prob[i + 1], Percent))
  IN IF \E i \in 0..(TopK - 1) : fails(i)
     THEN [raised |-> TRUE, value |-> NoneResult, sorted_indices |-> sorted_indices_]
     ELSE [raised |-> FALSE,
           value |-> [kind |-> "list", items |-> [i \in 1..TopK |-> dobj(i - 1)]],
           sorted_indices |-> sorted_indices_]

\* order is what np.squeeze(np.argsort(probabilities)) returned.
Postprocess(labels, probs, order) ==
  CHOOSE out \in {PostprocessLoop(labels, sorted_prob, sorted_indices_) :
                    sorted_prob \in {descending(np_sort(Squeeze(probs)))},
                    sorted_indices_ \in {descending(order)}} : TRUE

\* What Postprocess can return: one outcome for each order np.argsort may give.
PostprocessOutcomes(labels, probs) ==
  {Postprocess(labels, probs, order) : order \in ArgSorts(Squeeze(probs))}

-----------------------------------------------------------------------------
(* self._lock *)

acquire_unguarded(holder, t) == TRUE
acquire(holder, t) == holder = Free

\* leaving the with block, normally or by an exception
release_unless_raised(holder, raised) == IF raised THEN holder ELSE Free
release(holder, raised) == Free

-----------------------------------------------------------------------------
(* State machine *)

NoLocals(cs) ==
  /\ cvImage = [t \in cs |-> NoImage]
  /\ imageBlob = [t \in cs |-> NoneBlob]
  /\ probabilities = [t \in cs |-> <<>>]
  /\ sorted_indices = [t \in cs |-> <<>>]
  /\ exc = [t \in cs |-> "none"]
  /\ logged = [t \in cs |-> {}]
  /\ runInvoked = [t \in cs |-> FALSE]
  /\ result = [t \in cs |-> NoneResult]

\* Before MLModel() runs: the two files are whatever the download step left.
Init ==
  /\ callers = 1..NumCallers
  /\ labelFile \in {FullFile, ShortFile, MissingFile}
  /\ modelFile \in BOOLEAN
  /\ constructed = FALSE
  /\ hasLabelList = FALSE
  /\ labelList = <<>>
  /\ hasSession = FALSE
  /\ sessionInput = NoneBlob
  /\ initLogged = FALSE
  /\ lock = Free
  /\ pc = [t \in callers |-> "idle"]
  /\ NoLocals(callers)

\* MLModel.__init__: the lock is created first; an exception at any later
\* statement skips the rest and is logged, and the object is returned anyway.
Construct ==
  /\ ~constructed
  /\ constructed' = TRUE
  /\ lock' = Free
  /\ IF ~labelFile.exists
     THEN /\ initLogged' = TRUE
          /\ UNCHANGED <<hasLabelList, labelList, hasSession>>
     ELSE /\ hasLabelList' = TRUE
          /\ labelList' = ReadLabels(labelFile.lines)
          /\ hasSession' = modelFile
          /\ initLogged' = ~modelFile
  /\ UNCHANGED <<callers, labelFile, modelFile, sessionInput, pc, cvImage, imageBlob,
                 probabilities, sorted_indices, exc, logged, runInvoked, result>>

\* A thread calls Score(cvImage) on the constructed object.
Call(t, img) ==
  /\ constructed
  /\ pc[t] = "idle"
  /\ pc' = [pc EXCEPT ![t] = "with"]
  /\ cvImage' = [cvImage EXCEPT ![t] = img]
  /\ UNCHANGED <<callers, sessionInput, lock, imageBlob, probabilities,
                 sorted_indices, exc, logged, runInvoked, result>>
  /\ UNCHANGED objVars

\* with self._lock:
Acquire(t) ==
  /\ pc[t] = "with"
  /\ acquire(lock, t)
  /\ lock' = t
  /\ pc' = [pc EXCEPT ![t] = "Preprocess"]
  /\ UNCHANGED <<callers, sessionInput, cvImage, imageBlob, probabilities,
                 sorted_indices, exc, logged, runInvoked, result>>
  /\ UNCHANGED objVars

\* imageBlob = self.Preprocess(cvImage): an exception inside is logged there
\* and None is returned.
DoPreprocess(t) ==
  /\ pc[t] = "Preprocess"
  /\ imageBlob' = [imageBlob EXCEPT ![t] = Preprocess(cvImage[t]).blob]
  /\ logged' = [logged EXCEPT ![t] =
                  IF Preprocess(cvImage[t]).raised THEN @ \cup {"Preprocess"} ELSE @]
  /\ pc' = [pc EXCEPT ![t] = "run"]
  /\ UNCHANGED <<callers, sessionInput, lock, cvImage, probabilities,
                 sorted_indices, exc, runInvoked, result>>
  /\ UNCHANGED objVars

\* self._onnxSession.run(None, {"data": imageBlob}), first half: the attribute
\* lookup, the call, the engine's check of its input and the binding of it.
DoRun(t) ==
  /\ pc[t] = "run"
  /\ IF ~hasSession
     THEN /\ exc' = [exc EXCEPT ![t] = "run"]
          /\ pc' = [pc EXCEPT ![t] = "exit"]
          /\ UNCHANGED <<runInvoked, sessionInput>>
     ELSE /\ runInvoked' = [runInvoked EXCEPT ![t] = TRUE]
          /\ IF EngineAccepts(imageBlob[t])
             THEN /\ sessionInput' = imageBlob[t]
                  /\ pc' = [pc EXCEPT ![t] = "compute"]
                  /\ UNCHANGED exc
             ELSE /\ exc' = [exc EXCEPT ![t] = "run"]
                  /\ pc' = [pc EXCEPT ![t] = "exit"]
                  /\ UNCHANGED sessionInput
  /\ UNCHANGED <<callers, lock, cvImage, imageBlob, probabilities,
                 sorted_indices, logged, result>>
  /\ UNCHANGED objVars

\* second half: the engine computes the outputs of the input it is bound to.
DoCompute(t) ==
  /\ pc[t] = "compute"
  /\ probabilities' = [probabilities EXCEPT ![t] = Model(sessionInput)]
  /\ pc' = [pc EXCEPT ![t] = "exit"]
  /\ UNCHANGED <<callers, sessionInput, lock, cvImage, imageBlob,
                 sorted_indices, exc, logged, runInvoked, result>>
  /\ UNCHANGED objVars

\* The with block ends: the lock is released; a propagating exception reaches
\* Score's except clause, which logs it, and Score returns None.
ExitWith(t) ==
  /\ pc[t] = "exit"
  /\ lock' = release(lock, exc[t] # "none")
  /\ IF exc[t] = "none"
     THEN /\ pc' = [pc EXCEPT ![t] = "Postprocess"]
          /\ UNCHANGED <<logged, result>>
     ELSE /\ logged' = [logged EXCEPT ![t] = @ \cup {exc[t]}]
          /\ result' = [result EXCEPT ![t] = NoneResult]
          /\ pc' = [pc EXCEPT ![t] = "done"]
  /\ UNCHANGED <<callers, sessionInput, cvImage, imageBlob, probabilities,
                 sorted_indices, exc, runInvoked>>
  /\ UNCHANGED objVars

\* return self.Postprocess(probabilities): an exception inside is logged there
\* and None is returned.
DoPostprocess(t) ==
  /\ pc[t] = "Postprocess"
  /\ \E r \in PostprocessOutcomes(labelList, probabilities[t]) :
       /\ sorted_indices' = [sorted_indices EXCEPT ![t] = SubSeq(r.sorted_indices, 1, TopK)]
       /\ result' = [result EXCEPT ![t] = r.value]
       /\ logged' = [logged EXCEPT ![t] = IF r.raised THEN @ \cup {"Postprocess"} ELSE @]
  /\ pc' = [pc EXCEPT ![t] = "done"]
  /\ UNCHANGED <<callers, sessionInput, lock, cvImage, imageBlob, probabilities,
                 exc, runInvoked>>
  /\ UNCHANGED objVars

\* The caller has its answer; the locals of the call are gone.
Return(t) ==
  /\ pc[t] = "done"
  /\ pc' = [pc EXCEPT ![t] = "idle"]
  /\ cvImage' = [cvImage EXCEPT ![t] = NoImage]
  /\ imageBlob' = [imageBlob EXCEPT ![t] = NoneBlob]
  /\ probabilities' = [probabilities EXCEPT ![t] = <<>>]
  /\ sorted_indices' = [sorted_indices EXCEPT ![t] = <<>>]
  /\ exc' = [exc EXCEPT ![t] = "none"]
  /\ logged' = [logged EXCEPT ![t] = {}]
  /\ runInvoked' = [runInvoked EXCEPT ![t] = FALSE]
  /\ result' = [result EXCEPT ![t] = NoneResult]
  /\ UNCHANGED <<callers, sessionInput, lock>>
  /\ UNCHANGED objVars

Step(t) ==
  \/ DoPreprocess(t)
  \/ DoRun(t)
  \/ DoCompute(t)
  \/ ExitWith(t)
  \/ DoPostprocess(t)
  \/ Return(t)

Next ==
  \/ Construct
  \/ \E t \in callers : \E img \in Images : Call(t, img)
  \/ \E t \in callers : Acquire(t)
  \/ \E t \in callers : Step(t)

Spec == Init /\ [][Next]_vars

(* Progress: callers keep calling Score, with images that pass and images   *)
(* that make Preprocess and the run raise, on an object whose label file    *)
(* was there or missing when it was constructed.                            *)

LiveImages == {ImgRed, ImgGray}

LiveInit ==
  /\ callers = 1..NumCallers
  /\ labelFile \in {FullFile, MissingFile}
  /\ modelFile = TRUE
  /\ constructed = FALSE
  /\ hasLabelList = FALSE
  /\ labelList = <<>>
  /\ hasSession = FALSE
  /\ sessionInput = NoneBlob
  /\ initLogged = FALSE
  /\ lock = Free
  /\ pc = [t \in callers |-> "idle"]
  /\ NoLocals(callers)

LiveNext ==
  \/ Construct
  \/ \E t \in callers : \E img \in LiveImages : Call(t, img)
  \/ \E t \in callers : Acquire(t)
  \/ \E t \in callers : Step(t)

\* Scheduling: a thread that can take a step of Score eventually takes it, and
\* a thread that keeps finding the lock free eventually gets it.
FairSpec ==
  /\ LiveInit
  /\ [][LiveNext]_vars
  /\ WF_vars(Construct)
  /\ \A t \in 1..NumCallers : WF_vars(Step(t)) /\ SF_vars(Acquire(t))

-----------------------------------------------------------------------------
(* BurstCallers threads call Score at the same time on a loaded object *)

BurstImage(t) ==
  IF t % 3 = 1 THEN ImgRed ELSE IF t % 3 = 2 THEN ImgBlue ELSE ImgSmall

BurstInit ==
  /\ callers = 1..BurstCallers
  /\ labelFile = FullFile
  /\ modelFile = TRUE
  /\ constructed = TRUE
  /\ hasLabelList = TRUE
  /\ labelList = ReadLabels(FullFile.lines)
  /\ hasSession = TRUE
  /\ sessionInput = NoneBlob
  /\ initLogged = FALSE
  /\ lock = Free
  /\ pc = [t \in callers |-> "with"]
  /\ cvImage = [t \in callers |-> BurstImage(t)]
  /\ imageBlob = [t \in callers |-> NoneBlob]
  /\ probabilities = [t \in callers |-> <<>>]
  /\ sorted_indices = [t \in callers |-> <<>>]
  /\ exc = [t \in callers |-> "none"]
  /\ logged = [t \in callers |-> {}]
  /\ runInvoked = [t \in callers |-> FALSE]
  /\ result = [t \in callers |-> NoneResult]

BurstNext ==
  \/ \E t \in callers : Acquire(t)
  \/ \E t \in callers : DoPreprocess(t)
  \/ \E t \in callers : DoRun(t)
  \/ \E t \in callers : DoCompute(t)
  \/ \E t \in callers : ExitWith(t)
  \/ \E t \in callers : DoPostprocess(t)

BurstSpec == BurstInit /\ [][BurstNext]_vars

-----------------------------------------------------------------------------
(* Postprocess applied to every score vector over Scores and every label table *)

Scores == {Float(1, 20), Float(4, 1), Float(150, 1)}
Vectors == [1..OutDim -> Scores] \cup {ExampleVec}
LabelFiles == {FullFile, SynsetFile, ShortFile, TabFile, BareFile}

RankInit ==
  /\ callers = {1}
  /\ labelFile \in LabelFiles
  /\ modelFile = TRUE
  /\ constructed = TRUE
  /\ hasLabelList = TRUE
  /\ labelList = ReadLabels(labelFile.lines)
  /\ hasSession = TRUE
  /\ sessionInput = NoneBlob
  /\ initLogged = FALSE
  /\ lock = Free
  /\ pc = [t \in callers |-> "Postprocess"]
  /\ cvImage = [t \in callers |-> NoImage]
  /\ imageBlob = [t \in callers |-> NoneBlob]
  /\ probabilities \in {[t \in callers |-> << <<v>> >>] : v \in Vectors}
  /\ sorted_indices = [t \in callers |-> <<>>]
  /\ exc = [t \in callers |-> "none"]
  /\ logged = [t \in callers |-> {}]
  /\ runInvoked = [t \in callers |-> FALSE]
  /\ result = [t \in callers |-> NoneResult]

RankNext == \E t \in callers : DoPostprocess(t)

RankSpec == RankInit /\ [][RankNext]_vars

-----------------------------------------------------------------------------
(* Properties *)

InGuardedSection(t) == pc[t] \in {"Preprocess", "run", "compute"}
IsError(r) == r.kind = "error"
Vec(t) == Squeeze(probabilities[t])

\* C1: at most one caller at a time has started Preprocess and not yet
\* finished the model's run.
C1_OneInPreprocessAndRun ==
  Cardinality({t \in callers : InGuardedSection(t)}) <= 1

C1_Witness ==
  \E t, u \in callers : pc[t] = "compute" /\ pc[u] = "with" /\ lock = t

\* C2: a Score call in which a stage failed returns an error value naming
\* that stage, and no Score call returns neither a result list nor an error.
C2_ErrorsReachTheCaller ==
  \A t \in callers :
    pc[t] = "done" =>
      /\ result[t].kind \in {"list", "error"}
      /\ logged[t] # {} => IsError(result[t]) /\ result[t].stage \in logged[t]

\* C3: an image that is not 224x224x3 is rejected before any transform: no
\* tensor is built from it, the model's run is not invoked, and Score fails
\* with a ShapeError.
C3_BadShapeRejectedBeforeRun ==
  \A t \in callers :
    (pc[t] # "idle" /\ ~ValidShape(cvImage[t])) =>
      /\ imageBlob[t].isNone
      /\ ~runInvoked[t]
      /\ pc[t] = "done" => IsError(result[t]) /\ result[t].stage = "ShapeError"

\* C4: with BurstCallers >= 8 callers inside Score at once, each call's
\* tensor, probability vector and result are those of scoring its own image
\* alone.
SerialResults(labels, img) ==
  LET blob == Preprocess(img).blob IN
    IF ~EngineAccepts(blob) THEN {NoneResult}
    ELSE {r.value : r \in PostprocessOutcomes(labels, Model(blob))}
SerialScore ==
  [labels \in {ReadLabels(FullFile.lines)}, img \in Images |-> SerialResults(labels, img)]

C4_NoCrossRequestInterference ==
  \A t \in callers :
    /\ pc[t] \in {"run", "compute", "exit", "Postprocess", "done"} =>
         imageBlob[t] = Preprocess(cvImage[t]).blob
    /\ probabilities[t] # <<>> => probabilities[t] = Model(Preprocess(cvImage[t]).blob)
    /\ pc[t] = "done" => result[t] \in SerialScore[labelList, cvImage[t]]

C4_Witness ==
  /\ Cardinality(callers) >= 8
  /\ \A t \in callers : pc[t] = "done"
  /\ \E t, u \in callers :
       /\ result[t].kind = "list" /\ result[u].kind = "list" /\ result[t] # result[u]

\* C5: for a label table of the vector's length whose lines are
\* "<identifier> <display-name>", Postprocess returns three entries for the
\* three highest scores in order, each with the text after the first space of
\* its own index's line and that index's score divided by 100.
HasSpace(line) == \E p \in 1..Len(line) : line[p] = " "
AfterFirstSpace(line) ==
  LET p == CHOOSE p \in 1..Len(line) : line[p] = " " /\ \A q \in 1..(p - 1) : line[q] # " "
  IN SubSeq(line, p + 1, Len(line))
WellFormed(labels) == \A i \in 1..Len(labels) : HasSpace(labels[i])
IsTopThree(v, a, b, c) ==
  /\ a # b /\ a # c /\ b # c
  /\ Leq(v[b], v[a]) /\ Leq(v[c], v[b])
  /\ \A k \in (1..Len(v)) \ {a, b, c} : Leq(v[k], v[c])
EntryOf(entry, labels, v, i) ==
  /\ entry.type = "classification"
  /\ entry.classification.tag.value = AfterFirstSpace(labels[i])
  /\ entry.classification.tag.confidence.num * (v[i].den * 100)
       = v[i].num * entry.classification.tag.confidence.den

C5_TopThreeWithOwnLabels ==
  \A t \in callers :
    (pc[t] = "done" /\ Len(labelList) = Len(Vec(t)) /\ WellFormed(labelList)) =>
      /\ result[t].kind = "list"
      /\ Len(result[t].items) = 3
      /\ \E a, b, c \in 1..Len(Vec(t)) :
           /\ IsTopThree(Vec(t), a, b, c)
           /\ EntryOf(result[t].items[1], labelList, Vec(t), a)
           /\ EntryOf(result[t].items[2], labelList, Vec(t), b)
           /\ EntryOf(result[t].items[3], labelList, Vec(t), c)

C5_Witness ==
  \E t \in callers :
    /\ pc[t] = "done"
    /\ Len(labelList) >= 5
    /\ SubSeq(Vec(t), 1, 5) = <<Float(1, 10), Float(92, 1), Float(1, 20), Float(4, 1), Float(3, 1)>>
    /\ SubSeq(labelList, 1, 5) = << <<"0", " ", "cat">>, <<"1", " ", "dog">>, <<"2", " ", "bird">>,
                                    <<"3", " ", "fish">>, <<"4", " ", "mouse">> >>
    /\ result[t].items = <<Tag(<<"dog">>, Float(92, 100)), Tag(<<"fish">>, Float(4, 100)),
                           Tag(<<"mouse">>, Float(3, 100))>>

\* C6: equal scores at indices i < j: if both are in the result i comes
\* first, and if only one is in the result it is i.
PositionOf(t, i) == {r \in 1..Len(sorted_indices[t]) : sorted_indices[t][r] = i - 1}
C6_LowerIndexWinsTies ==
  \A t \in callers :
    (pc[t] = "done" /\ result[t].kind = "list") =>
      \A i, j \in 1..Len(Vec(t)) :
        (i < j /\ Eq(Vec(t)[i], Vec(t)[j]) /\ PositionOf(t, j) # {}) =>
          /\ PositionOf(t, i) # {}
          /\ \A ri \in PositionOf(t, i), rj \in PositionOf(t, j) : ri < rj

\* C7: for a valid 224x224x3 image and the vector the model produced for it,
\* Score returns exactly 3 results with confidences in [0,1], non-increasing.
Confidence(t, r) == result[t].items[r].classification.tag.confidence
C7_ThreeOrderedConfidences ==
  \A t \in callers :
    (pc[t] = "done" /\ ValidShape(cvImage[t]) /\ probabilities[t] # <<>>) =>
      /\ result[t].kind = "list"
      /\ Len(result[t].items) = 3
      /\ \A r \in 1..3 : Leq(Float(0, 1), Confidence(t, r)) /\ Leq(Confidence(t, r), Float(1, 1))
      /\ \A r \in 1..2 : Leq(Confidence(t, r + 1), Confidence(t, r))

\* C8: with a label table shorter than the model's output, either the
\* constructor reports it, or a Score whose top 3 selects an index beyond the
\* table returns an error; no entry carries the label of another index.
SelectsBeyondTable(t) ==
  \E r \in 1..Len(sorted_indices[t]) : sorted_indices[t][r] >= Len(labelList)
C8_ShortLabelTableReported ==
  (constructed /\ hasLabelList /\ Len(labelList) < OutDim /\ ~initLogged) =>
    \A t \in callers :
      pc[t] = "done" =>
        /\ SelectsBeyondTable(t) => IsError(result[t])
        /\ result[t].kind = "list" =>
             \A r \in 1..3 :
               result[t].items[r].classification.tag.value
                 = AfterFirstSpace(labelList[sorted_indices[t][r] + 1])

\* C9: once loading the label file or the model file has failed in the
\* constructor, no Score call gets as far as preprocessing, running the model
\* or postprocessing.
HasPreprocessed(t) == pc[t] \in {"run", "compute", "exit", "Postprocess", "done"}
C9_LoadFailureStopsServing ==
  initLogged => \A t \in callers : ~HasPreprocessed(t)

\* C10: a caller holds the lock exactly while it is between acquiring it and
\* leaving the with block (never while postprocessing or after returning,
\* whether or not a stage failed); under fair scheduling a waiting caller
\* eventually holds the lock and every Score call eventually returns.
HoldsLockOnlyInside ==
  \A t \in callers : (lock = t) <=> (pc[t] \in {"Preprocess", "run", "compute", "exit"})
=============================================================================
